---- MODULE Spec2Model ----
(***************************************************************************)
(* ResourceResolver of vk-io (snippets/resource-resolver.ts): one call of  *)
(* resolve(rawResource), from the validation of the input to the result or *)
(* the error the call ends with.                                           *)
(*                                                                         *)
(* A JavaScript string is a sequence of one-character strings, so that the *)
(* regular expressions, trim, substring, String(), Number() and the URL    *)
(* parser are modelled by what they do on the characters.                  *)
(***************************************************************************)
EXTENDS Integers, Sequences, FiniteSets

(***************************************************************************)
(* Characters                                                              *)
(***************************************************************************)
Digits == <<"0", "1", "2", "3", "4", "5", "6", "7", "8", "9">>

Lowers == <<"a", "b", "c", "d", "e", "f", "g", "h", "i", "j", "k", "l", "m",
            "n", "o", "p", "q", "r", "s", "t", "u", "v", "w", "x", "y", "z">>

Uppers == <<"A", "B", "C", "D", "E", "F", "G", "H", "I", "J", "K", "L", "M",
            "N", "O", "P", "Q", "R", "S", "T", "U", "V", "W", "X", "Y", "Z">>

Range(f) == {f[i] : i \in DOMAIN f}

DigitSet == Range(Digits)

LowerSet == Range(Lowers)

UpperSet == Range(Uppers)

\* \d
IsDigit(c) == c \in DigitSet

\* [a-z] under the i flag
AlphaSet == LowerSet \cup UpperSet

IsAlpha(c) == c \in AlphaSet

IsSpace(c) == c = " "

MinOf(S) == CHOOSE x \in S : \A y \in S : x <= y

\* The last index of the longest run of characters of the class that starts
\* at i (i - 1 when s[i] is not of the class): a greedy [class]+ or [class]*.
RunEnd(s, i, class) ==
    LET stop == {k \in i..Len(s) : s[k] \notin class}
    IN  IF stop = {} THEN Len(s) ELSE MinOf(stop) - 1

\* The same for a negated class [^...]
RunEndNot(s, i, class) ==
    LET stop == {k \in i..Len(s) : s[k] \in class}
    IN  IF stop = {} THEN Len(s) ELSE MinOf(stop) - 1

\* String.prototype.substring(from) with a 0-based from
SubstringFrom(s, from) == SubSeq(s, from + 1, Len(s))

ToLowerChar(c) ==
    IF c \in UpperSet
    THEN Lowers[CHOOSE i \in DOMAIN Uppers : Uppers[i] = c]
    ELSE c

\* String.prototype.toLowerCase
ToLowerCase(s) == [i \in 1..Len(s) |-> ToLowerChar(s[i])]

\* String.prototype.trim
Trim(s) ==
    LET keep == {k \in 1..Len(s) : ~IsSpace(s[k])}
    IN  IF keep = {} THEN <<>>
        ELSE SubSeq(s, MinOf(keep), CHOOSE x \in keep : \A y \in keep : y <= x)

\* s contains the string t at index i (1-based)
HasAt(s, t, i) ==
    /\ i >= 1
    /\ i + Len(t) - 1 <= Len(s)
    /\ \A k \in 1..Len(t) : s[i + k - 1] = t[k]

Contains(s, t) == \E i \in 1..(Len(s) + 1) : HasAt(s, t, i)

(***************************************************************************)
(* Numbers and their decimal text                                          *)
(***************************************************************************)
DigitVal(c) == (CHOOSE i \in DOMAIN Digits : Digits[i] = c) - 1

RECURSIVE NatOfDigits(_)
NatOfDigits(s) ==
    IF s = <<>> THEN 0
    ELSE 10 * NatOfDigits(SubSeq(s, 1, Len(s) - 1)) + DigitVal(s[Len(s)])

RECURSIVE DigitsOfNat(_)
DigitsOfNat(n) ==
    IF n < 10 THEN <<Digits[n + 1]>>
    ELSE DigitsOfNat(n \div 10) \o <<Digits[(n % 10) + 1]>>

\* String(n), and the text n contributes to `type + n`
NumberToString(n) == IF n < 0 THEN <<"-">> \o DigitsOfNat(-n) ELSE DigitsOfNat(n)

\* Number(s) for a text that numberRe accepts ("-0" is -0, which is not < 0
\* and prints as "0": the integer 0 stands for it)
StringToNumber(s) ==
    IF s[1] = "-" THEN -NatOfDigits(Tail(s)) ELSE NatOfDigits(s)

(***************************************************************************)
(* Texts                                                                   *)
(***************************************************************************)
TxtHttp == <<"h", "t", "t", "p", ":", "/", "/">>

TxtHttps == <<"h", "t", "t", "p", "s", ":", "/", "/">>

TxtVkCom == <<"v", "k", ".", "c", "o", "m">>

TxtM == <<"m", ".">>

TxtUndefined == <<"u", "n", "d", "e", "f", "i", "n", "e", "d">>

TxtId == <<"i", "d">>

TxtClub == <<"c", "l", "u", "b">>

TxtPublic == <<"p", "u", "b", "l", "i", "c">>

TxtApp == <<"a", "p", "p">>

TxtPage == <<"p", "a", "g", "e">>

TxtConstructor == <<"c", "o", "n", "s", "t", "r", "u", "c", "t", "o", "r">>

\* ResourceType.USER, ResourceType.GROUP, ResourceType.APPLICATION
USER == <<"u", "s", "e", "r">>

GROUP == <<"g", "r", "o", "u", "p">>

APPLICATION == <<"a", "p", "p", "l", "i", "c", "a", "t", "i", "o", "n">>

\* The value undefined, which is no text: a text holds one-character strings.
UndefinedValue == <<"(undefined)">>

\* A function object, which is no text either (Object.prototype.constructor).
FunctionValue == <<"(function Object)">>

\* The text a regular expression's test and match work on: String(v)
ToText(v) == IF v = UndefinedValue THEN TxtUndefined ELSE v

(***************************************************************************)
(* The regular expressions of the resolver                                 *)
(***************************************************************************)
\* numberRe = /^-?\d+$/
numberRe(s) ==
    LET body == IF s # <<>> /\ s[1] = "-" THEN Tail(s) ELSE s
    IN  body # <<>> /\ \A i \in 1..Len(body) : IsDigit(body[i])

\* hasProtocolRe = /https?:\/\//i, anywhere in the text
hasProtocolRe(s) ==
    \/ Contains(ToLowerCase(s), TxtHttp)
    \/ Contains(ToLowerCase(s), TxtHttps)

\* isVKUrl = /^(?:https?:\/\/)?(?:m\.)?vk\.com/i
isVKUrl(s) ==
    \E scheme \in {<<>>, TxtHttp, TxtHttps}, sub \in {<<>>, TxtM} :
        HasAt(ToLowerCase(s), scheme \o sub \o TxtVkCom, 1)

\* isUserMentionRe = /\*|@/, anywhere in the text
isUserMentionRe(s) == \E i \in 1..Len(s) : s[i] \in {"*", "@"}

\* systemMentionRe = /\[([^|]+)|([^|\]]+)\]/ has two alternatives:
\* \[([^|]+) and ([^|\]]+)\]. The first one at index i:
SystemMentionOpen(s, i) ==
    /\ s[i] = "["
    /\ i + 1 <= Len(s)
    /\ s[i + 1] # "|"

\* the second one at index i (the greedy run must be followed by the bracket)
SystemMentionClose(s, i) ==
    /\ s[i] \notin {"|", "]"}
    /\ RunEndNot(s, i, {"|", "]"}) + 1 <= Len(s)
    /\ s[RunEndNot(s, i, {"|", "]"}) + 1] = "]"

SystemMentionStarts(s) ==
    {i \in 1..Len(s) : SystemMentionOpen(s, i) \/ SystemMentionClose(s, i)}

\* systemMentionRe.test(s)
systemMentionRe(s) == SystemMentionStarts(s) # {}

\* resource.match(systemMentionRe)[1]: the first group of the leftmost match,
\* undefined when that match is one of the second alternative
SystemMentionGroup1(s) ==
    LET i == MinOf(SystemMentionStarts(s))
    IN  IF SystemMentionOpen(s, i)
        THEN SubSeq(s, i + 1, RunEndNot(s, i + 1, {"|"}))
        ELSE UndefinedValue

\* removeSearchParam = /(\?|&)[^=]+=/ : the indices a leftmost match covers
SearchParamStarts(s) ==
    {i \in 1..Len(s) :
        /\ s[i] \in {"?", "&"}
        /\ i + 1 <= Len(s)
        /\ s[i + 1] # "="
        /\ \E j \in (i + 2)..Len(s) : s[j] = "="}

\* type.replace(removeSearchParam, '')
removeSearchParam(s) ==
    IF SearchParamStarts(s) = {} THEN s
    ELSE LET i == MinOf(SearchParamStarts(s))
             j == MinOf({k \in (i + 2)..Len(s) : s[k] = "="})
         IN  SubSeq(s, 1, i - 1) \o SubSeq(s, j + 1, Len(s))

(***************************************************************************)
(* The grammars of utils/helpers, which the resolver imports.              *)
(* Owner-tagged reference <typeTag><signedOwnerId>_<id>, found anywhere in *)
(* the text: ([a-z]+)(-?\d+)_(\d+) under the i flag. A match that starts   *)
(* at index i:                                                             *)
(***************************************************************************)
OwnerShapeAt(s, i) ==
    /\ IsAlpha(s[i])
    /\ LET a  == RunEnd(s, i, AlphaSet)
           d0 == IF a + 1 <= Len(s) /\ s[a + 1] = "-" THEN a + 2 ELSE a + 1
           d1 == RunEnd(s, d0, DigitSet)
       IN  /\ d1 >= d0
           /\ d1 + 2 <= Len(s)
           /\ s[d1 + 1] = "_"
           /\ IsDigit(s[d1 + 2])

OwnerShapeStarts(s) == {i \in 1..Len(s) : OwnerShapeAt(s, i)}

\* The groups 1, 2 and 3 of the leftmost match
OwnerShapeGroups(s) ==
    LET i  == MinOf(OwnerShapeStarts(s))
        a  == RunEnd(s, i, AlphaSet)
        d0 == IF s[a + 1] = "-" THEN a + 2 ELSE a + 1
        d1 == RunEnd(s, d0, DigitSet)
    IN  <<SubSeq(s, i, a),
          SubSeq(s, a + 1, d1),
          SubSeq(s, d1 + 2, RunEnd(s, d1 + 2, DigitSet))>>

\* parseAttachmentRe.test(s)
parseAttachmentRe(s) == OwnerShapeStarts(s) # {}

\* s.match(parseAttachmentRe)
parseAttachmentMatch(s) == OwnerShapeGroups(s)

\* parseOwnerResourceRe.test(s): the same shape
parseOwnerResourceRe(s) == OwnerShapeStarts(s) # {}

\* s.match(parseOwnerResourceRe)
parseOwnerResourceMatch(s) == OwnerShapeGroups(s)

\* Type-prefixed plain ID <prefix><nonNegativeId>, found anywhere in the
\* text: ([a-z]+)(\d+) under the i flag
PlainShapeAt(s, i) ==
    /\ IsAlpha(s[i])
    /\ RunEnd(s, i, AlphaSet) + 1 <= Len(s)
    /\ IsDigit(s[RunEnd(s, i, AlphaSet) + 1])

PlainShapeStarts(s) == {i \in 1..Len(s) : PlainShapeAt(s, i)}

\* parseResourceRe.test(s)
parseResourceRe(s) == PlainShapeStarts(s) # {}

\* s.match(parseResourceRe): the groups 1 and 2 of the leftmost match
parseResourceMatch(s) ==
    LET i == MinOf(PlainShapeStarts(s))
        a == RunEnd(s, i, AlphaSet)
    IN  <<SubSeq(s, i, a), SubSeq(s, a + 1, RunEnd(s, a + 1, DigitSet))>>

(***************************************************************************)
(* Results and errors                                                      *)
(***************************************************************************)
NoOutcome ==
    [kind |-> "none", id |-> 0, hasOwnerId |-> FALSE, ownerId |-> 0,
     type |-> <<>>, code |-> "", message |-> ""]

\* { id, ownerId, type }
OwnedResource(id, ownerId, type) ==
    [kind |-> "resource", id |-> id, hasOwnerId |-> TRUE, ownerId |-> ownerId,
     type |-> type, code |-> "", message |-> ""]

\* { id, type }
PlainResource(id, type) ==
    [kind |-> "resource", id |-> id, hasOwnerId |-> FALSE, ownerId |-> 0,
     type |-> type, code |-> "", message |-> ""]

\* new ResourceError({ code, message })
ResourceError(code, message) ==
    [kind |-> "ResourceError", id |-> 0, hasOwnerId |-> FALSE, ownerId |-> 0,
     type |-> <<>>, code |-> code, message |-> message]

\* The TypeError that new URL(...) throws for a text that is no URL
InvalidUrlTypeError ==
    [kind |-> "TypeError", id |-> 0, hasOwnerId |-> FALSE, ownerId |-> 0,
     type |-> <<>>, code |-> "ERR_INVALID_URL", message |-> "Invalid URL"]

\* resolveOwnerResource(resource, pattern)
resolveOwnerResource(resource, pattern) ==
    LET groups == IF pattern = "parseAttachmentRe"
                  THEN parseAttachmentMatch(resource)
                  ELSE parseOwnerResourceMatch(resource)
    IN  OwnedResource(StringToNumber(groups[3]),
                      StringToNumber(groups[2]),
                      removeSearchParam(ToLowerCase(groups[1])))

\* enumResourceTypes[type]: the object literal's own keys, and what it
\* inherits from Object.prototype under a lower-case alphabetic key
enumResourceTypes(type) ==
    CASE type = TxtId -> USER
      [] type = TxtClub -> GROUP
      [] type = TxtPublic -> GROUP
      [] type = TxtApp -> APPLICATION
      [] type = TxtConstructor -> FunctionValue
      [] OTHER -> UndefinedValue

(***************************************************************************)
(* new URL(text) of the Node.js runtime (the WHATWG URL parser, no base    *)
(* URL), as far as pathname and search go. The texts the model feeds it    *)
(* hold letters, digits and . : / ? = & _ - [ ] | and inner spaces; "."    *)
(* stands only in "vk.com" and "m.", so no path segment is "." or "..".    *)
(***************************************************************************)
SchemeHttp == <<"h", "t", "t", "p">>

SchemeHttps == <<"h", "t", "t", "p", "s">>

SchemeFtp == <<"f", "t", "p">>

SchemeWs == <<"w", "s">>

SchemeWss == <<"w", "s", "s">>

SpecialSchemes == {SchemeHttp, SchemeHttps, SchemeFtp, SchemeWs, SchemeWss}

SchemeChars == AlphaSet \cup DigitSet \cup {"+", "-", "."}

Slashes == {"/", "\\"}

ForbiddenHostChars ==
    {" ", "#", "/", ":", "<", ">", "?", "@", "[", "\\", "]", "^", "|", "%"}

\* Without a base URL the text must start with <alpha><scheme chars>*":"
UrlHasScheme(s) ==
    /\ s # <<>>
    /\ IsAlpha(s[1])
    /\ RunEnd(s, 1, SchemeChars) + 1 <= Len(s)
    /\ s[RunEnd(s, 1, SchemeChars) + 1] = ":"

\* The index of the first character of s, from index i on, that is in
\* stops; Len(s) + 1 when there is none
FirstOf(s, i, stops) ==
    LET at == {k \in i..Len(s) : s[k] \in stops}
    IN  IF at = {} THEN Len(s) + 1 ELSE MinOf(at)

\* host[:port] is acceptable: the port is digits, the host is there when
\* the scheme is special or a port is given, holds no forbidden character
\* and, for a special scheme, does not end in a number unless all of it is
\* an IPv4 address
UrlHostOk(authority, special) ==
    LET colon == FirstOf(authority, 1, {":"})
        host  == SubSeq(authority, 1, colon - 1)
        port  == SubSeq(authority, colon + 1, Len(authority))
        dots  == {k \in 1..Len(host) : host[k] = "."}
        inner == IF host # <<>> /\ host[Len(host)] = "."
                 THEN SubSeq(host, 1, Len(host) - 1) ELSE host
        last  == SubSeq(inner,
                        1 + (CHOOSE k \in {0} \cup {d \in dots : d <= Len(inner)} :
                               \A d \in dots : d <= Len(inner) => d <= k),
                        Len(inner))
        endsInNumber == last # <<>> /\ \A k \in 1..Len(last) : IsDigit(last[k])
        allNumeric == \A k \in 1..Len(inner) : IsDigit(inner[k]) \/ inner[k] = "."
    IN  /\ \A k \in 1..Len(port) : IsDigit(port[k])
        /\ port = <<>> \/ NatOfDigits(port) <= 65535
        /\ host # <<>> \/ (~special /\ colon > Len(authority))
        /\ \A k \in 1..Len(host) : host[k] \notin ForbiddenHostChars
        /\ special /\ endsInNumber => allNumeric /\ Cardinality(dots) <= 3

\* Percent-encoding of a path or a query: of these texts only the space is
\* in the encode set
RECURSIVE PercentEncode(_)
PercentEncode(s) ==
    IF s = <<>> THEN <<>>
    ELSE (IF s[1] = " " THEN <<"%", "2", "0">> ELSE <<s[1]>>) \o PercentEncode(Tail(s))

\* What follows the authority (or the scheme): the path up to "?", the query
UrlPathAndQuery(rest, special) ==
    LET q     == FirstOf(rest, 1, {"?"})
        path  == SubSeq(rest, 1, q - 1)
        query == SubSeq(rest, q + 1, Len(rest))
    IN  [ok |-> TRUE,
         pathname |-> IF special /\ path = <<>> THEN <<"/">> ELSE PercentEncode(path),
         search |-> IF query = <<>> THEN <<>> ELSE <<"?">> \o PercentEncode(query)]

UrlFailure == [ok |-> FALSE, pathname |-> <<>>, search |-> <<>>]

\* new URL(text): ok is FALSE when it throws
ParseUrl(text) ==
    IF ~UrlHasScheme(text) THEN UrlFailure
    ELSE
      LET hash    == FirstOf(text, 1, {"#"})
          s       == SubSeq(text, 1, hash - 1)
          e       == RunEnd(s, 1, SchemeChars)
          special == ToLowerCase(SubSeq(s, 1, e)) \in SpecialSchemes
          rest    == SubSeq(s, e + 2, Len(s))
          \* a special scheme skips every slash before the authority; another
          \* scheme has an authority only after "//"
          from    == IF special THEN RunEnd(rest, 1, Slashes) + 1
                     ELSE IF HasAt(rest, <<"/", "/">>, 1) THEN 3 ELSE 1
          hasAuth == special \/ HasAt(rest, <<"/", "/">>, 1)
          to      == FirstOf(rest, from,
                             IF special THEN {"/", "\\", "?"} ELSE {"/", "?"})
          auth    == SubSeq(rest, from, to - 1)
          at      == {k \in 1..Len(auth) : auth[k] = "@"}
          hostport == IF at = {} THEN auth
                      ELSE SubSeq(auth, 1 + (CHOOSE k \in at : \A j \in at : j <= k),
                                  Len(auth))
      IN  IF hasAuth
          THEN IF UrlHostOk(hostport, special)
               THEN UrlPathAndQuery(SubSeq(rest, to, Len(rest)), special)
               ELSE UrlFailure
          ELSE UrlPathAndQuery(rest, FALSE)

(***************************************************************************)
(* The inputs of a call and the collaborator's responses                   *)
(***************************************************************************)
\* The longest run of core tokens in a text input
MaxCore == 2

\* The largest magnitude of an integer input
MaxInt == 12

\* The largest object_id the collaborator reports
MaxObjectId == 1

\* What a text input starts with: nothing, a space, a sigil, a bracket, a
\* sigil or a bracket further in, the platform's domain in its shapes
Heads ==
    {<<>>,
     <<" ">>,
     <<"@">>,
     <<"*">>,
     <<"[">>,
     <<"a", "@">>,
     <<"a", "[">>,
     <<"v", "k", ".", "c", "o", "m">>,
     <<"v", "k", ".", "c", "o", "m", "/">>,
     <<"m", ".", "v", "k", ".", "c", "o", "m", "/">>,
     <<"h", "t", "t", "p", ":", "/", "/", "v", "k", ".", "c", "o", "m", "/">>,
     <<"h", "t", "t", "p", "s", ":", "/", "/", "m", ".", "v", "k", ".", "c", "o", "m", "/">>,
     <<"v", "k", ".", "c", "o", "m", "?">>,
     <<"v", "k", ".", "c", "o", "m", "/", "a", "?">>,
     <<"v", "k", ".", "c", "o", "m", "/", "a", "?", "w", "=">>,
     <<"v", "k", ".", "c", "o", "m", "h", "t", "t", "p", ":", "/", "/">>}

\* What its middle is made of: digits, a sign, prefixes of the alias table
\* in either case, a prefix outside it, a name Object.prototype knows
CoreTokens ==
    {<<"1">>,
     <<"0">>,
     <<"-">>,
     <<"c", "l", "u", "b">>,
     <<"a">>,
     <<"I", "D">>,
     <<"c", "o", "n", "s", "t", "r", "u", "c", "t", "o", "r">>}

\* What it ends with
Tails ==
    {<<>>,
     <<" ">>,
     <<"]">>,
     <<"|", "a", "]">>,
     <<"?", "h", "t", "t", "p", ":", "/", "/">>,
     <<"-", "1", "_", "2">>,
     <<"_", "2">>,
     <<"@">>,
     <<"/">>}

RECURSIVE Cores(_)
Cores(n) ==
    IF n = 0 THEN {<<>>}
    ELSE Cores(n - 1) \cup {c \o t : c \in Cores(n - 1), t \in CoreTokens}

TextInputs == {h \o c \o t : h \in Heads, c \in Cores(MaxCore), t \in Tails}

\* rawResource: an integer, a text, or null/undefined
Inputs ==
    {[kind |-> "number", num |-> n, text |-> <<>>] : n \in -MaxInt..MaxInt}
    \cup {[kind |-> "string", num |-> 0, text |-> s] : s \in TextInputs}
    \cup {[kind |-> "nullish", num |-> 0, text |-> <<>>]}

\* The collaborator answers with a list or with { type, object_id }
NoResponse == [isArray |-> FALSE, answered |-> FALSE, type |-> <<>>, object_id |-> 0]

Responses ==
    {[isArray |-> TRUE, answered |-> TRUE, type |-> <<>>, object_id |-> 0]}
    \cup {[isArray |-> FALSE, answered |-> TRUE, type |-> t, object_id |-> i] :
            t \in {TxtPage, USER, TxtClub}, i \in 0..MaxObjectId}

(***************************************************************************)
(* One call of resolve                                                     *)
(***************************************************************************)
VARIABLES
    rawResource,  \* the argument of resolve
    pc,           \* the method the call is in: "resolve", "resolveNumber",
                  \* "resolveMention", "resolveUrl", "resolveScreenName",
                  \* "lookup" (awaiting the collaborator) or "done"
    resource,     \* the argument of that method
    outcome,      \* what the call returned or threw
    response,     \* what the collaborator answered
    lookups,      \* the screen_name of every request sent to the collaborator
    trace         \* the methods entered and the grammars tested, in order

vars == <<rawResource, pc, resource, outcome, response, lookups, trace>>

\* ResourceErrorCode
INVALID_URL == "INVALID_URL"

INVALID_RESOURCE == "INVALID_RESOURCE"

RESOURCE_NOT_FOUND == "RESOURCE_NOT_FOUND"

Init ==
    /\ rawResource \in Inputs
    /\ pc = "resolve"
    /\ resource = <<>>
    /\ outcome = NoOutcome
    /\ response = NoResponse
    /\ lookups = <<>>
    /\ trace = <<>>

\* !rawResource
IsFalsy(raw) ==
    CASE raw.kind = "number" -> raw.num = 0
      [] raw.kind = "string" -> raw.text = <<>>
      [] OTHER -> TRUE

\* String(rawResource)
ToString(raw) ==
    IF raw.kind = "number" THEN NumberToString(raw.num) ELSE raw.text

\* The method resolve hands the trimmed text to
Classify(r) ==
    IF numberRe(r) THEN "resolveNumber"
    ELSE IF isUserMentionRe(r) \/ systemMentionRe(r) THEN "resolveMention"
    ELSE IF isVKUrl(r) THEN "resolveUrl"
    ELSE "resolveScreenName"

Resolve ==
    /\ pc = "resolve"
    /\ trace' = Append(trace, "resolve")
    /\ IF IsFalsy(rawResource)
       THEN /\ outcome' = ResourceError(INVALID_RESOURCE, "Resource is required")
            /\ pc' = "done"
            /\ UNCHANGED resource
       ELSE /\ resource' = Trim(ToString(rawResource))
            /\ pc' = Classify(Trim(ToString(rawResource)))
            /\ UNCHANGED outcome
    /\ UNCHANGED <<rawResource, response, lookups>>

\* resolveNumber without the negation of a group's number
NumberTarget_KeepsSign(n) ==
    IF n < 0 THEN TxtClub \o NumberToString(n) ELSE TxtId \o NumberToString(n)

\* The text resolveNumber passes to resolveScreenName
NumberTarget(n) ==
    IF n < 0 THEN TxtClub \o NumberToString(-n) ELSE TxtId \o NumberToString(n)

\* resolveNumber(Number(resource))
ResolveNumber ==
    /\ pc = "resolveNumber"
    /\ trace' = Append(trace, "resolveNumber")
    /\ resource' = NumberTarget(StringToNumber(resource))
    /\ pc' = "resolveScreenName"
    /\ UNCHANGED <<rawResource, outcome, response, lookups>>

\* What resolveMention passes to resolveScreenName
MentionTarget(r) ==
    IF isUserMentionRe(r) THEN SubstringFrom(r, 1) ELSE SystemMentionGroup1(r)

ResolveMention ==
    /\ pc = "resolveMention"
    /\ trace' = Append(trace, "resolveMention")
    /\ resource' = MentionTarget(resource)
    /\ pc' = "resolveScreenName"
    /\ UNCHANGED <<rawResource, outcome, response, lookups>>

\* The text resolveUrl gives to new URL
ResourceUrl(rawResourceUrl) ==
    IF ~hasProtocolRe(rawResourceUrl) THEN TxtHttps \o rawResourceUrl
    ELSE rawResourceUrl

\* The grammars a method tests, in order, up to the first that matches
GrammarsTested(s) ==
    IF parseAttachmentRe(s) THEN <<"parseAttachmentRe">>
    ELSE <<"parseAttachmentRe", "parseOwnerResourceRe">>

ResolveUrl ==
    /\ pc = "resolveUrl"
    /\ LET url == ParseUrl(ResourceUrl(resource))
       IN  IF ~url.ok
           THEN /\ outcome' = InvalidUrlTypeError
                /\ pc' = "done"
                /\ trace' = Append(trace, "resolveUrl")
                /\ UNCHANGED resource
           ELSE IF url.pathname = <<"/">>
           THEN /\ outcome' = ResourceError(INVALID_URL, "URL should contain path")
                /\ pc' = "done"
                /\ trace' = Append(trace, "resolveUrl")
                /\ UNCHANGED resource
           ELSE IF parseAttachmentRe(url.search)
           THEN /\ outcome' = resolveOwnerResource(url.search, "parseAttachmentRe")
                /\ pc' = "done"
                /\ trace' = trace \o <<"resolveUrl">> \o GrammarsTested(url.search)
                /\ UNCHANGED resource
           ELSE IF parseOwnerResourceRe(url.search)
           THEN /\ outcome' = resolveOwnerResource(url.search, "parseOwnerResourceRe")
                /\ pc' = "done"
                /\ trace' = trace \o <<"resolveUrl">> \o GrammarsTested(url.search)
                /\ UNCHANGED resource
           ELSE /\ resource' = SubstringFrom(url.pathname, 1)
                /\ pc' = "resolveScreenName"
                /\ trace' = trace \o <<"resolveUrl">> \o GrammarsTested(url.search)
                /\ UNCHANGED outcome
    /\ UNCHANGED <<rawResource, response, lookups>>

\* The result of the type-prefixed plain-ID branch of resolveScreenName
PlainIdResource(s) ==
    LET groups == parseResourceMatch(s)
        type   == ToLowerCase(groups[1])
    IN  PlainResource(StringToNumber(groups[2]),
                      IF enumResourceTypes(type) # UndefinedValue
                      THEN enumResourceTypes(type)
                      ELSE type)

\* resolveScreenName without its type-prefixed plain-ID grammar
NeedsLookup_SkipsPlainId(s) ==
    /\ ~parseAttachmentRe(s)
    /\ ~parseOwnerResourceRe(s)

\* resolveScreenName asks the collaborator when none of its grammars matches
NeedsLookup(s) ==
    /\ ~parseAttachmentRe(s)
    /\ ~parseOwnerResourceRe(s)
    /\ ~parseResourceRe(s)

\* resolveScreenName up to its request to the collaborator; a regular
\* expression works on the text of its argument
ResolveScreenName ==
    /\ pc = "resolveScreenName"
    /\ LET s == ToText(resource)
       IN  IF NeedsLookup(s)
           THEN /\ lookups' = Append(lookups, resource)
                /\ pc' = "lookup"
                /\ trace' = trace \o <<"resolveScreenName", "parseAttachmentRe",
                                       "parseOwnerResourceRe", "parseResourceRe",
                                       "lookup">>
                /\ UNCHANGED outcome
           ELSE IF parseAttachmentRe(s)
           THEN /\ outcome' = resolveOwnerResource(s, "parseAttachmentRe")
                /\ pc' = "done"
                /\ trace' = trace \o <<"resolveScreenName">> \o GrammarsTested(s)
                /\ UNCHANGED lookups
           ELSE IF parseOwnerResourceRe(s)
           THEN /\ outcome' = resolveOwnerResource(s, "parseOwnerResourceRe")
                /\ pc' = "done"
                /\ trace' = trace \o <<"resolveScreenName">> \o GrammarsTested(s)
                /\ UNCHANGED lookups
           ELSE /\ outcome' = PlainIdResource(s)
                /\ pc' = "done"
                /\ trace' = trace \o <<"resolveScreenName">> \o GrammarsTested(s)
                                  \o <<"parseResourceRe">>
                /\ UNCHANGED lookups
    /\ UNCHANGED <<rawResource, resource, response>>

\* resolveScreenName without the remapping of the type page
LookupOutcome_KeepsPage(r) ==
    IF r.isArray THEN ResourceError(RESOURCE_NOT_FOUND, "Resource not found")
    ELSE PlainResource(r.object_id, r.type)

\* What resolveScreenName makes of the collaborator's answer
LookupOutcome(r) ==
    IF r.isArray THEN ResourceError(RESOURCE_NOT_FOUND, "Resource not found")
    ELSE IF r.type = TxtPage THEN PlainResource(r.object_id, GROUP)
    ELSE PlainResource(r.object_id, r.type)

\* The collaborator answers and resolveScreenName resumes
LookupReturn ==
    /\ pc = "lookup"
    /\ \E r \in Responses :
        /\ response' = r
        /\ outcome' = LookupOutcome(r)
    /\ pc' = "done"
    /\ trace' = Append(trace, "response")
    /\ UNCHANGED <<rawResource, resource, lookups>>

Next ==
    \/ Resolve
    \/ ResolveNumber
    \/ ResolveMention
    \/ ResolveUrl
    \/ ResolveScreenName
    \/ LookupReturn

Spec == Init /\ [][Next]_vars

(***************************************************************************)
(* Properties                                                              *)
(***************************************************************************)
\* The text resolve classifies
Trimmed == Trim(ToString(rawResource))

Sigils == {"*", "@"}

ErrorCodes == {INVALID_RESOURCE, INVALID_URL, RESOURCE_NOT_FOUND}

\* The call went through resolveNumber and has reached resolveScreenName
AfterResolveNumber ==
    /\ Len(trace) >= 2
    /\ trace[2] = "resolveNumber"

\* The call went through resolveMention and has reached resolveScreenName
AfterResolveMention ==
    /\ Len(trace) >= 2
    /\ trace[2] = "resolveMention"

\* C1: a call with a non-empty input ends with a resource whose type is
\* defined and whose id is not negative, or with a ResourceError of one of
\* the three codes; no other failure happens, and no request is sent to the
\* collaborator with an undefined screen name.
C1_ResourceOrDefinedError ==
    ~IsFalsy(rawResource) =>
        /\ \A i \in 1..Len(lookups) : lookups[i] # UndefinedValue
        /\ pc = "done" =>
            \/ /\ outcome.kind = "resource"
               /\ outcome.type # UndefinedValue
               /\ outcome.id >= 0
            \/ /\ outcome.kind = "ResourceError"
               /\ outcome.code \in ErrorCodes

\* C2: a text input that is empty, or empty once trimmed, fails with
\* INVALID_RESOURCE; it is not classified and the collaborator is not asked.
C2_BlankIsInvalidResource ==
    rawResource.kind = "string" /\ Trim(rawResource.text) = <<>> =>
        /\ pc \in {"resolve", "done"}
        /\ lookups = <<>>
        /\ pc = "done" =>
            /\ outcome.kind = "ResourceError"
            /\ outcome.code = INVALID_RESOURCE

\* C3: resolve(0) does not fail with INVALID_RESOURCE: the integer 0 is
\* re-dispatched as id0 and resolves to the user 0.
C3_ZeroIsNotInvalid ==
    rawResource.kind = "number" /\ rawResource.num = 0 /\ pc = "done" =>
        /\ outcome.code # INVALID_RESOURCE
        /\ AfterResolveNumber
        /\ outcome = PlainResource(0, USER)

C5_SigilOnlyLeading ==
    AfterResolveMention /\ pc = "resolveScreenName" =>
        IF Trimmed[1] \in Sigils
        THEN resource = Tail(Trimmed)
        ELSE /\ systemMentionRe(Trimmed)
             /\ resource = SystemMentionGroup1(Trimmed)

\* The text between the opening bracket and the first "|" or "]" after it
BracketedName(s) == SubSeq(s, 2, FirstOf(s, 2, {"|", "]"}) - 1)

\* A text of the shape [A|B] or [A] with a non-empty A and no sigil
IsBracketMention(s) ==
    /\ Len(s) >= 3
    /\ s[1] = "["
    /\ s[Len(s)] = "]"
    /\ BracketedName(s) # <<>>
    /\ \A i \in 1..Len(s) : s[i] \notin Sigils
    /\ \A i \in 2..(Len(s) - 1) : s[i] \notin {"[", "]"}

\* C6: for a bracketed mention [A|B] or [A] the text delegated to
\* resolveScreenName is exactly A.
C6_BracketDelegatesName ==
    IsBracketMention(Trimmed) /\ pc \notin {"resolve", "resolveMention"} =>
        /\ AfterResolveMention
        /\ pc = "resolveScreenName" => resource = BracketedName(Trimmed)

\* The alias table, and the prefix itself outside it
AliasImage(prefix) ==
    CASE prefix = TxtId -> USER
      [] prefix = TxtClub -> GROUP
      [] prefix = TxtPublic -> GROUP
      [] prefix = TxtApp -> APPLICATION
      [] OTHER -> prefix

\* C7: when resolveScreenName ends in its type-prefixed plain-ID grammar,
\* the result is {id, type} without ownerId and without a request to the
\* collaborator, type being the alias-table image of the lowercased prefix
\* and, for a prefix outside the table, the lowercased prefix itself.
C7_PlainIdAlias ==
    pc = "done" /\ trace[Len(trace)] = "parseResourceRe" =>
        LET groups == parseResourceMatch(ToText(resource))
        IN  /\ lookups = <<>>
            /\ outcome = PlainResource(StringToNumber(groups[2]),
                                       AliasImage(ToLowerCase(groups[1])))

\* The text after the optional scheme of a platform URL
AfterScheme(s) ==
    IF HasAt(ToLowerCase(s), TxtHttps, 1) THEN SubstringFrom(s, Len(TxtHttps))
    ELSE IF HasAt(ToLowerCase(s), TxtHttp, 1) THEN SubstringFrom(s, Len(TxtHttp))
    ELSE s

\* The path of a platform URL: from the first "/" after the domain up to "?"
PathOf(s) ==
    LET rest == AfterScheme(s)
    IN  SubSeq(rest, FirstOf(rest, 1, {"/", "?"}), FirstOf(rest, 1, {"?"}) - 1)

\* The call went through resolveUrl: resolve took the text for a URL
AfterResolveUrl ==
    /\ Len(trace) >= 2
    /\ trace[2] = "resolveUrl"

\* C8: a text taken for a platform URL whose path is empty or "/" fails
\* with INVALID_URL, "URL should contain path", whatever its query holds,
\* before any grammar is tested and without a request to the collaborator.
C8_BareDomainIsInvalidUrl ==
    AfterResolveUrl /\ PathOf(Trimmed) \in {<<>>, <<"/">>} =>
        /\ pc = "done"
        /\ lookups = <<>>
        /\ outcome = ResourceError(INVALID_URL, "URL should contain path")
        /\ trace = <<"resolve", "resolveUrl">>

\* C9: once the collaborator has answered, the outcome is a function of the
\* answer alone: RESOURCE_NOT_FOUND for a list, {id: object_id, type:
\* "group"} for the type page, {id: object_id, type} for any other type;
\* and a result has an ownerId only when the call ended in the attachment
\* or owner-embed grammar.
C9_LookupOutcome ==
    /\ response.answered =>
        /\ pc = "done"
        /\ ~outcome.hasOwnerId
        /\ outcome =
            IF response.isArray
            THEN ResourceError(RESOURCE_NOT_FOUND, "Resource not found")
            ELSE IF response.type = TxtPage
                 THEN PlainResource(response.object_id, GROUP)
                 ELSE PlainResource(response.object_id, response.type)
    /\ outcome.hasOwnerId =>
        /\ lookups = <<>>
        /\ trace[Len(trace)] \in {"parseAttachmentRe", "parseOwnerResourceRe"}

\* C9 happens: the collaborator answered {type: "page", object_id: 1} and
\* the call ended with {id: 1, type: "group"}.
C9_Witness ==
    /\ response.answered
    /\ ~response.isArray
    /\ response.type = TxtPage
    /\ response.object_id = 1
    /\ outcome = PlainResource(1, GROUP)

LookupTrail ==
    <<"resolveScreenName", "parseAttachmentRe", "parseOwnerResourceRe",
      "parseResourceRe", "lookup">>

\* C10: in a call the collaborator is asked at most once, only after the
\* attachment, owner-embed and plain-ID grammars were tested in that order
\* and none matched the delegated text, and never in a call that ends with
\* INVALID_RESOURCE, INVALID_URL or a result of one of the grammars;
\* RESOURCE_NOT_FOUND ends the call after its single request.
C10_LookupOnceAndLast ==
    /\ Len(lookups) <= 1
    /\ {i \in 1..Len(trace) : trace[i] = "lookup"} \in {{}, {Len(trace)}, {Len(trace) - 1}}
    /\ lookups # <<>> =>
        /\ lookups[1] = resource
        /\ ~parseAttachmentRe(ToText(resource))
        /\ ~parseOwnerResourceRe(ToText(resource))
        /\ ~parseResourceRe(ToText(resource))
        /\ \E k \in 1..Len(trace) :
            /\ SubSeq(trace, k, k + 4) = LookupTrail
            /\ k + 4 >= Len(trace) - 1
        /\ pc \in {"lookup", "done"}
        /\ pc = "done" => response.answered
    /\ pc = "done" /\ outcome.code \in {INVALID_RESOURCE, INVALID_URL} => lookups = <<>>
    /\ pc = "done" /\ ~response.answered => lookups = <<>>
    /\ outcome.code = RESOURCE_NOT_FOUND => pc = "done" /\ Len(lookups) = 1

\* C10 happens: a URL path that no grammar matches was looked up once and
\* the call ended with RESOURCE_NOT_FOUND.
C10_Witness ==
    /\ pc = "done"
    /\ AfterResolveUrl
    /\ Len(lookups) = 1
    /\ outcome.code = RESOURCE_NOT_FOUND

====
